---- MODULE Spec2Model ----
(***************************************************************************)
(* process_temu_selection of app.py as a state machine.                    *)
(*                                                                         *)
(* A DataFrame is [columns |-> set of labels, rows |-> sequence of         *)
(* [idx |-> index label, val |-> function from columns to cells]].         *)
(* A cell is a number, a text or NaN (an empty cell); a text is a sequence *)
(* of strings (one character each wherever the code looks inside a text).  *)
(* The Excel headers of COLUMN_MAP are written in ASCII (pinyin), since    *)
(* the module's strings are ASCII.                                         *)
(***************************************************************************)
EXTENDS Integers, Sequences, FiniteSets, TLC

VARIABLES file_paths, all_data, full_df, asin_counts, unique_df, top_30,
          final_result, pc

vars == <<file_paths, all_data, full_df, asin_counts, unique_df, top_30,
          final_result, pc>>

----------------------------------------------------------------------------
(* Bounds of the model *)

MaxFiles == 2

MaxRows == 3

MaxFilterRows == 2

MaxCopies == 4

----------------------------------------------------------------------------
(* Cells *)

NaN == [t |-> "nan", n |-> 0, s |-> <<>>]

Num(k) == [t |-> "num", n |-> k, s |-> <<>>]

Str(cs) == [t |-> "str", n |-> 0, s |-> cs]

Range(f) == {f[x] : x \in DOMAIN f}

Digit == [c \in {"0", "1", "2", "3", "4", "5", "6", "7", "8", "9"} |->
            CASE c = "0" -> 0 [] c = "1" -> 1 [] c = "2" -> 2 [] c = "3" -> 3
              [] c = "4" -> 4 [] c = "5" -> 5 [] c = "6" -> 6 [] c = "7" -> 7
              [] c = "8" -> 8 [] c = "9" -> 9]

DigitChar == <<"0", "1", "2", "3", "4", "5", "6", "7", "8", "9">>

----------------------------------------------------------------------------
(* Configuration *)

COLUMN_MAP ==
  [ASIN |-> "ASIN",
   Title |-> "biaoti",
   Price |-> "jiage",
   Monthly_Sales |-> "yuexiaoliang",
   Sales_Growth |-> "jin30tian_xiaoliang_zengzhanglv",
   Revenue_Change |-> "yuexiaoshoue_zengzhanglv",
   Price_Change |-> "jiage_bianhua",
   Ratings |-> "pingfenshu",
   Launch_Date |-> "shangjia_shijian",
   Brand |-> "pinpai",
   Weight |-> "zhongliang",
   Image_URL |-> "zhutu_lianjie",
   SKU |-> "SKU"]

BLOCK_BRANDS ==
  << <<"O", "X", "O">>,
     <<"N", "i", "n", "j", "a">>,
     <<"K", "i", "t", "c", "h", "e", "n", "A", "i", "d">>,
     <<"K", "e", "u", "r", "i", "g">>,
     <<"A", "m", "a", "z", "o", "n", "B", "a", "s", "i", "c", "s">>,
     <<"C", "u", "i", "s", "i", "n", "a", "r", "t">> >>

numeric_cols == {"Price", "Monthly_Sales", "Ratings", "Sales_Growth"}

PRICE_FLOOR == 8

WEIGHT_CEILING == 1000

TOP_N == 30

URL_BASE == <<"https://www.amazon.com/dp/">>

NoFrame == [columns |-> {}, rows |-> <<>>]

NoResult == [kind |-> "running", df |-> NoFrame]

----------------------------------------------------------------------------
(* Step 1: reading *)

\* c.strip() on the headers the workbooks of the model use
strip(c) ==
  CASE c = " ASIN " -> "ASIN"
    [] c = "jiage " -> "jiage"
    [] OTHER -> c

\* pd.read_excel, the header clean-up and the Source_List tag (lines 41-47)
read_excel(wb, source_name) ==
  LET cols == {strip(c) : c \in wb.columns} \cup {"Source_List"}
      raw(c) == CHOOSE h \in wb.columns : strip(h) = c
  IN [columns |-> cols,
      rows |-> [k \in 1..Len(wb.rows) |->
                  [idx |-> k - 1,
                   val |-> [c \in cols |->
                              IF c = "Source_List" THEN Str(<<source_name>>)
                              ELSE wb.rows[k][raw(c)]]]]]

----------------------------------------------------------------------------
(* Step 2: merging, renaming, numeric coercion *)

RECURSIVE ConcatRows(_)
ConcatRows(dfs) ==
  IF dfs = <<>> THEN <<>> ELSE dfs[1].rows \o ConcatRows(Tail(dfs))

\* pd.concat(all_data, ignore_index=True): the union of the columns, the rows
\* in input order, an absent column filled with NaN, the index renumbered
concat(dfs) ==
  LET cols == UNION {dfs[k].columns : k \in DOMAIN dfs}
      rs == ConcatRows(dfs)
  IN [columns |-> cols,
      rows |-> [k \in 1..Len(rs) |->
                  [idx |-> k - 1,
                   val |-> [c \in cols |->
                              IF c \in DOMAIN rs[k].val THEN rs[k].val[c]
                              ELSE NaN]]]]

\* rename_dict = {v: k for k, v in COLUMN_MAP.items() if v in full_df.columns}
rename_dict(columns) ==
  [v \in {COLUMN_MAP[k] : k \in DOMAIN COLUMN_MAP} \cap columns |->
     CHOOSE k \in DOMAIN COLUMN_MAP : COLUMN_MAP[k] = v]

\* full_df.rename(columns=rename_dict)
rename(df) ==
  LET d == rename_dict(df.columns)
      new(c) == IF c \in DOMAIN d THEN d[c] ELSE c
      cols == {new(c) : c \in df.columns}
      old(c) == CHOOSE o \in df.columns : new(o) = c
  IN [columns |-> cols,
      rows |-> [k \in 1..Len(df.rows) |->
                  [idx |-> df.rows[k].idx,
                   val |-> [c \in cols |-> df.rows[k].val[old(c)]]]]]

\* a column read from a spreadsheet has dtype object when it holds a text
is_object(df, col) ==
  \E k \in 1..Len(df.rows) : df.rows[k].val[col].t = "str"

RECURSIVE int_to_text(_)
int_to_text(k) ==
  IF k < 0 THEN <<"-">> \o int_to_text(-k)
  ELSE IF k < 10 THEN <<DigitChar[k + 1]>>
  ELSE int_to_text(k \div 10) \o <<DigitChar[(k % 10) + 1]>>

\* .astype(str)
astype_str(cell) ==
  CASE cell.t = "str" -> cell
    [] cell.t = "num" -> Str(int_to_text(cell.n))
    [] OTHER -> Str(<<"n", "a", "n">>)

RECURSIVE remove_char(_, _)
remove_char(s, ch) ==
  IF s = <<>> THEN <<>>
  ELSE IF s[1] = ch THEN remove_char(Tail(s), ch)
  ELSE <<s[1]>> \o remove_char(Tail(s), ch)

\* .str.replace(ch, '')
str_replace(cell, ch) == Str(remove_char(cell.s, ch))

RECURSIVE digits_value(_, _)
digits_value(s, acc) ==
  IF s = <<>> THEN acc ELSE digits_value(Tail(s), 10 * acc + Digit[s[1]])

all_digits(s) == s # <<>> /\ \A k \in 1..Len(s) : s[k] \in DOMAIN Digit

\* pd.to_numeric(..., errors='coerce') on integer literals: a text that is not
\* a number becomes NaN
to_numeric(cell) ==
  IF cell.t # "str" THEN cell
  ELSE IF all_digits(cell.s) THEN Num(digits_value(cell.s, 0))
  ELSE IF cell.s # <<>> /\ cell.s[1] = "-" /\ all_digits(Tail(cell.s))
    THEN Num(-digits_value(Tail(cell.s), 0))
  ELSE NaN

\* .fillna(0)
fillna0(cell) == IF cell.t = "nan" THEN Num(0) ELSE cell

\* lines 69-71 on one cell of a column whose dtype is object or not
coerce_cell(cell, object) ==
  fillna0(to_numeric(IF object
                     THEN str_replace(str_replace(astype_str(cell), "%"), ",")
                     ELSE cell))

\* the loop of lines 66-71
coerce_numeric(df) ==
  LET obj == [c \in numeric_cols \cap df.columns |-> is_object(df, c)]
  IN [columns |-> df.columns,
      rows |-> [k \in 1..Len(df.rows) |->
                  [idx |-> df.rows[k].idx,
                   val |-> [c \in df.columns |->
                              IF c \in numeric_cols
                              THEN coerce_cell(df.rows[k].val[c], obj[c])
                              ELSE df.rows[k].val[c]]]]]

----------------------------------------------------------------------------
(* Step 3: overlap counts and deduplication *)

RECURSIVE select_rows(_, _)
select_rows(rows, keep) ==
  IF rows = <<>> THEN <<>>
  ELSE (IF 1 \in keep THEN <<rows[1]>> ELSE <<>>)
       \o select_rows(Tail(rows), {k - 1 : k \in keep \ {1}})

\* drop_duplicates with keep='last'
drop_duplicates_last(df, col) ==
  LET last == {k \in 1..Len(df.rows) :
                 \A j \in (k + 1)..Len(df.rows) :
                   df.rows[j].val[col] # df.rows[k].val[col]}
  IN [columns |-> df.columns, rows |-> select_rows(df.rows, last)]

\* full_df.drop_duplicates(subset=[col]): keep='first', NaN equal to NaN
drop_duplicates(df, col) ==
  LET first == {k \in 1..Len(df.rows) :
                  \A j \in 1..(k - 1) : df.rows[j].val[col] # df.rows[k].val[col]}
  IN [columns |-> df.columns, rows |-> select_rows(df.rows, first)]

\* value_counts taken after the duplicates are dropped
value_counts_deduplicated(df, col) ==
  LET vals == {df.rows[k].val[col] : k \in 1..Len(df.rows)} \ {NaN}
      uniq == drop_duplicates(df, col)
  IN [v \in vals |->
        Cardinality({k \in 1..Len(uniq.rows) : uniq.rows[k].val[col] = v})]

\* the number of sources a value occurs in, not of its rows
value_counts_sources(df, col) ==
  LET vals == {df.rows[k].val[col] : k \in 1..Len(df.rows)} \ {NaN}
  IN [v \in vals |->
        Cardinality({df.rows[k].val["Source_List"] :
                       k \in {j \in 1..Len(df.rows) : df.rows[j].val[col] = v}})]

\* full_df['ASIN'].value_counts(): the occurrences of each value, NaN left out
value_counts(df, col) ==
  LET vals == {df.rows[k].val[col] : k \in 1..Len(df.rows)} \ {NaN}
  IN [v \in vals |-> Cardinality({k \in 1..Len(df.rows) : df.rows[k].val[col] = v})]

\* asin_counts.get(asin, 1)
counts_get(counts, asin, default) ==
  IF asin \in DOMAIN counts THEN counts[asin] ELSE default

----------------------------------------------------------------------------
(* Step 4: filters *)

UPPERCASE == <<"A", "B", "C", "D", "E", "F", "G", "H", "I", "J", "K", "L", "M",
               "N", "O", "P", "Q", "R", "S", "T", "U", "V", "W", "X", "Y", "Z">>

LOWERCASE == <<"a", "b", "c", "d", "e", "f", "g", "h", "i", "j", "k", "l", "m",
               "n", "o", "p", "q", "r", "s", "t", "u", "v", "w", "x", "y", "z">>

lower(c) ==
  IF \E k \in 1..Len(UPPERCASE) : UPPERCASE[k] = c
  THEN LOWERCASE[CHOOSE k \in 1..Len(UPPERCASE) : UPPERCASE[k] = c]
  ELSE c

\* kw occurs in s, letter case ignored
contains_nocase(s, kw) ==
  \E i \in 0..(Len(s) - Len(kw)) :
    \A j \in 1..Len(kw) : lower(s[i + j]) = lower(kw[j])

\* .astype(str).str.contains('|'.join(BLOCK_BRANDS), case=False, na=False)
brand_blocked(cell) ==
  \E b \in 1..Len(BLOCK_BRANDS) : contains_nocase(astype_str(cell).s, BLOCK_BRANDS[b])

\* unique_df[~blocked] when the frame has a Brand column (lines 87-89)
filter_brand(df) ==
  IF "Brand" \in df.columns
  THEN [columns |-> df.columns,
        rows |-> select_rows(df.rows, {k \in 1..Len(df.rows) :
                                         ~brand_blocked(df.rows[k].val["Brand"])})]
  ELSE df

\* the price filter with >= for >
filter_price_inclusive(df) ==
  IF "Price" \in df.columns
  THEN [columns |-> df.columns,
        rows |-> select_rows(df.rows, {k \in 1..Len(df.rows) :
                                         df.rows[k].val["Price"].n >= PRICE_FLOOR})]
  ELSE df

\* unique_df[unique_df['Price'] > 8] when the frame has a Price column
filter_price(df) ==
  IF "Price" \in df.columns
  THEN [columns |-> df.columns,
        rows |-> select_rows(df.rows, {k \in 1..Len(df.rows) :
                                         df.rows[k].val["Price"].n > PRICE_FLOOR})]
  ELSE df

\* NaN < 1000 is False: a comparison with NaN selects nothing
weight_lt(cell, limit) == cell.t = "num" /\ cell.n < limit

\* unique_df[unique_df['Weight'] < 1000] when the frame has a Weight column
filter_weight(df) ==
  IF "Weight" \in df.columns
  THEN [columns |-> df.columns,
        rows |-> select_rows(df.rows, {k \in 1..Len(df.rows) :
                                         weight_lt(df.rows[k].val["Weight"],
                                                   WEIGHT_CEILING)})]
  ELSE df

----------------------------------------------------------------------------
(* Step 5: scoring *)

\* row.get(col, 0)
row_get(row, col) == IF col \in DOMAIN row THEN row[col].n ELSE 0

overlap_points(count) ==
  IF count = 2 THEN 30 ELSE IF count >= 3 THEN 50 ELSE 0

sales_points(sales) == IF sales > 500 THEN 10 ELSE 0

\* the price band without its end points
price_points_exclusive(price) ==
  IF 20 < price /\ price < 40 THEN 10 ELSE IF price < 15 THEN -10 ELSE 0

price_points(price) ==
  IF 20 <= price /\ price <= 40 THEN 10 ELSE IF price < 15 THEN -10 ELSE 0

growth_points(growth) == IF growth > 50 THEN 10 ELSE 0

\* calculate_score(row), with asin_counts of the enclosing function
calculate_score(row, counts) ==
  LET score0 == 50
      asin == row["ASIN"]
      count == counts_get(counts, asin, 1)
      score1 == score0 + overlap_points(count)
      score2 == score1 + sales_points(row_get(row, "Monthly_Sales"))
      price == row_get(row, "Price")
      score3 == score2 + price_points(price)
      score4 == score3 + growth_points(row_get(row, "Sales_Growth"))
  IN score4

\* df[col] = one value per row
with_column(df, col, value(_)) ==
  [columns |-> df.columns \cup {col},
   rows |-> [k \in 1..Len(df.rows) |->
               [idx |-> df.rows[k].idx,
                val |-> [c \in df.columns \cup {col} |->
                           IF c = col THEN value(df.rows[k].val)
                           ELSE df.rows[k].val[c]]]]]

\* unique_df.apply(calculate_score, axis=1) stored as TPI_Score
apply_score(df, counts) ==
  with_column(df, "TPI_Score", LAMBDA row : Num(calculate_score(row, counts)))

----------------------------------------------------------------------------
(* Steps 6-8: ranking, link, projection *)

\* sort_values(by=col, ascending=False) with the default kind (quicksort, not
\* stable): every order of the rows in which the values do not increase
sort_values_desc(df, col) ==
  LET n == Len(df.rows)
  IN {[columns |-> df.columns, rows |-> [k \in 1..n |-> df.rows[p[k]]]] :
        p \in {q \in Permutations(1..n) :
                 \A i, j \in 1..n :
                   i < j => df.rows[q[i]].val[col].n >= df.rows[q[j]].val[col].n}}

\* .head(n)
head(df, n) ==
  [columns |-> df.columns,
   rows |-> SubSeq(df.rows, 1, IF Len(df.rows) < n THEN Len(df.rows) ELSE n)]

\* 'https://www.amazon.com/dp/' + asin: NaN stays NaN
amazon_url(row) ==
  IF row["ASIN"].t = "str" THEN Str(URL_BASE \o row["ASIN"].s) ELSE NaN

output_cols == <<"TPI_Score", "ASIN", "Amazon_URL", "Title", "Price",
                 "Monthly_Sales", "Sales_Growth", "Ratings">>

optional_cols == <<"Revenue_Change", "Price_Change", "Image_URL", "SKU">>

\* the list output_cols after the loop of lines 145-147
final_cols(df) ==
  output_cols \o SelectSeq(optional_cols, LAMBDA c : c \in df.columns)

\* top_30[cols]
project(df, cols) ==
  [columns |-> Range(cols),
   rows |-> [k \in 1..Len(df.rows) |->
               [idx |-> df.rows[k].idx,
                val |-> [c \in Range(cols) |-> df.rows[k].val[c]]]]]

----------------------------------------------------------------------------
(* Workbooks: what pd.read_excel may find on disk.  Numbers are integers,   *)
(* ASIN, Title and Brand cells are texts or empty, Weight cells are numbers *)
(* or empty (line 97 assumes so), and no header is a field name of          *)
(* COLUMN_MAP other than its own alias.                                     *)

T(chunk) == Str(<<chunk>>)

Chars_60pct == Str(<<"6", "0", "%">>)

Chars_NA == Str(<<"N", "/", "A">>)

\* a data row by field; a workbook holds the cells of its own headers
Product(asin, title, price, sales, growth, brand, weight) ==
  [ASIN |-> asin, Title |-> title, Price |-> price, Monthly_Sales |-> sales,
   Sales_Growth |-> growth, Ratings |-> Num(120), Brand |-> brand,
   Weight |-> weight, SKU |-> T("SKU-1"), beizhu |-> T("note")]

\* the field a header stands for
field_of(header) ==
  LET h == strip(header)
  IN IF \E k \in DOMAIN COLUMN_MAP : COLUMN_MAP[k] = h
     THEN CHOOSE k \in DOMAIN COLUMN_MAP : COLUMN_MAP[k] = h
     ELSE h

\* the workbooks with one of the header rows and at most maxRows of the products
Workbooks(headerRows, products, maxRows) ==
  {[columns |-> h,
    rows |-> [k \in 1..Len(ps) |-> [c \in h |-> ps[k][field_of(c)]]]] :
     h \in headerRows,
     ps \in UNION {[1..n -> products] : n \in 0..maxRows}}

H_STANDARD == {"ASIN", "biaoti", "jiage", "yuexiaoliang",
               "jin30tian_xiaoliang_zengzhanglv", "pingfenshu"}

H_PADDED_OPTIONAL == {" ASIN ", "biaoti", "jiage ", "yuexiaoliang",
                      "jin30tian_xiaoliang_zengzhanglv", "pingfenshu",
                      "SKU", "beizhu"}

H_NO_TITLE == H_STANDARD \ {"biaoti"}

H_NO_ASIN == {"biaoti", "jiage"}

P_FIRST == Product(T("B001"), T("Whisk"), Num(25), Num(600), Chars_60pct, NaN, NaN)

P_SPARSE == Product(T("B001"), NaN, Num(9), NaN, Num(10), NaN, NaN)

P_OTHER == Product(T("B002"), T("Ladle"), Num(25), Num(600), Chars_60pct, NaN, NaN)

P_NO_ASIN == Product(NaN, T("Tongs"), Num(30), Num(100), NaN, NaN, NaN)

P_CHEAP == Product(T("B003"), T("Spoon"), Num(5), Num(900), Num(80), NaN, NaN)

----------------------------------------------------------------------------
(* The run *)

source_name(k) ==
  CASE k = 1 -> "List_A_Growth"
    [] k = 2 -> "List_B_Rating"
    [] k = 3 -> "List_C_New"
    [] OTHER -> "List_" \o ToString(k)

None == [kind |-> "None", df |-> NoFrame]

Raise(exception) == [kind |-> exception, df |-> NoFrame]

Return(df) == [kind |-> "DataFrame", df |-> df]

FilePaths ==
  UNION {{[k \in 1..n |-> [path |-> k, source_name |-> source_name(k),
                           readable |-> ok[k]]] : ok \in [1..n -> BOOLEAN]} :
           n \in 0..MaxFiles}

Init ==
  /\ file_paths \in FilePaths
  /\ all_data = <<>>
  /\ full_df = NoFrame
  /\ asin_counts = <<>>
  /\ unique_df = NoFrame
  /\ top_30 = NoFrame
  /\ final_result = NoResult
  /\ pc = "read"

\* the loop with an unreadable file skipped instead of ending the run
ReadFile_continue(workbooks, maxRows) ==
  /\ pc = "read"
  /\ Len(all_data) < Len(file_paths)
  /\ LET f == file_paths[Len(all_data) + 1]
     IN IF f.readable
        THEN \E wb \in workbooks :
               /\ Len(wb.rows) + Len(ConcatRows(all_data)) <= maxRows
               /\ all_data' = Append(all_data, read_excel(wb, f.source_name))
        ELSE all_data' = Append(all_data, [columns |-> {"Source_List"}, rows |-> <<>>])
  /\ UNCHANGED <<file_paths, full_df, asin_counts, unique_df, top_30,
                 final_result, pc>>

\* one pass of the loop of lines 38-51: the file holds one of the workbooks,
\* and the rows of all files together are at most maxRows
ReadFile(workbooks, maxRows) ==
  /\ pc = "read"
  /\ Len(all_data) < Len(file_paths)
  /\ LET f == file_paths[Len(all_data) + 1]
     IN IF f.readable
        THEN /\ \E wb \in workbooks :
                  /\ Len(wb.rows) + Len(ConcatRows(all_data)) <= maxRows
                  /\ all_data' = Append(all_data, read_excel(wb, f.source_name))
             /\ UNCHANGED <<final_result, pc>>
        ELSE /\ final_result' = None
             /\ pc' = "done"
             /\ UNCHANGED all_data
  /\ UNCHANGED <<file_paths, full_df, asin_counts, unique_df, top_30>>

\* lines 53-77: the merge, the renaming, the coercion and the ASIN check
Normalize ==
  /\ pc = "read"
  /\ Len(all_data) = Len(file_paths)
  /\ IF all_data = <<>>
     THEN /\ final_result' = None
          /\ pc' = "done"
          /\ UNCHANGED full_df
     ELSE /\ full_df' = coerce_numeric(rename(concat(all_data)))
          /\ IF "ASIN" \notin full_df'.columns
             THEN final_result' = None /\ pc' = "done"
             ELSE pc' = "dedup" /\ UNCHANGED final_result
  /\ UNCHANGED <<file_paths, all_data, asin_counts, unique_df, top_30>>

\* lines 79-82
Deduplicate ==
  /\ pc = "dedup"
  /\ asin_counts' = value_counts(full_df, "ASIN")
  /\ unique_df' = drop_duplicates(full_df, "ASIN")
  /\ pc' = "brand"
  /\ UNCHANGED <<file_paths, all_data, full_df, top_30, final_result>>

\* lines 87-89
FilterBrand ==
  /\ pc = "brand"
  /\ unique_df' = filter_brand(unique_df)
  /\ pc' = "price"
  /\ UNCHANGED <<file_paths, all_data, full_df, asin_counts, top_30, final_result>>

\* lines 92-93
FilterPrice ==
  /\ pc = "price"
  /\ unique_df' = filter_price(unique_df)
  /\ pc' = "weight"
  /\ UNCHANGED <<file_paths, all_data, full_df, asin_counts, top_30, final_result>>

\* lines 96-98
FilterWeight ==
  /\ pc = "weight"
  /\ unique_df' = filter_weight(unique_df)
  /\ pc' = "score"
  /\ UNCHANGED <<file_paths, all_data, full_df, asin_counts, top_30, final_result>>

\* line 131. On a frame without rows DataFrame.apply returns, depending on the
\* pandas release, the empty frame itself (assigning it to one column raises
\* ValueError) or an empty Series (an empty TPI_Score column).
Score ==
  /\ pc = "score"
  /\ IF unique_df.rows # <<>>
     THEN /\ unique_df' = apply_score(unique_df, asin_counts)
          /\ pc' = "rank"
          /\ UNCHANGED final_result
     ELSE \/ /\ final_result' = Raise("ValueError")
             /\ pc' = "done"
             /\ UNCHANGED unique_df
          \/ /\ unique_df' = apply_score(unique_df, asin_counts)
             /\ pc' = "rank"
             /\ UNCHANGED final_result
  /\ UNCHANGED <<file_paths, all_data, full_df, asin_counts, top_30>>

\* lines 134-137. A text cannot be added to a column of numbers: when no ASIN
\* cell of the record set holds a text the link raises TypeError.
Rank ==
  /\ pc = "rank"
  /\ IF full_df.rows # <<>> /\ ~is_object(full_df, "ASIN")
     THEN /\ final_result' = Raise("TypeError")
          /\ pc' = "done"
          /\ UNCHANGED top_30
     ELSE /\ \E sorted \in sort_values_desc(unique_df, "TPI_Score") :
               top_30' = with_column(head(sorted, TOP_N), "Amazon_URL", amazon_url)
          /\ pc' = "project"
          /\ UNCHANGED final_result
  /\ UNCHANGED <<file_paths, all_data, full_df, asin_counts, unique_df>>

\* lines 140-151: a required column that is missing raises KeyError
Project ==
  /\ pc = "project"
  /\ final_result' = IF Range(final_cols(top_30)) \subseteq top_30.columns
                     THEN Return(project(top_30, final_cols(top_30)))
                     ELSE Raise("KeyError")
  /\ pc' = "done"
  /\ UNCHANGED <<file_paths, all_data, full_df, asin_counts, unique_df, top_30>>

Pipeline ==
  \/ Normalize
  \/ Deduplicate
  \/ FilterBrand
  \/ FilterPrice
  \/ FilterWeight
  \/ Score
  \/ Rank
  \/ Project

HEADERS_GENERAL == {H_STANDARD, H_PADDED_OPTIONAL, H_NO_TITLE, H_NO_ASIN}

PRODUCTS_GENERAL == {P_FIRST, P_OTHER, P_CHEAP}

BOOKS_GENERAL == Workbooks(HEADERS_GENERAL, PRODUCTS_GENERAL, MaxRows)

Next == ReadFile(BOOKS_GENERAL, MaxRows) \/ Pipeline

Spec == Init /\ [][Next]_vars

HEADERS_OVERLAP == {H_STANDARD, H_NO_ASIN}

PRODUCTS_OVERLAP == {P_FIRST, P_SPARSE, P_OTHER, P_NO_ASIN}

BOOKS_OVERLAP == Workbooks(HEADERS_OVERLAP, PRODUCTS_OVERLAP, MaxRows)

NextOverlap == ReadFile(BOOKS_OVERLAP, MaxRows) \/ Pipeline

SpecOverlap == Init /\ [][NextOverlap]_vars

----------------------------------------------------------------------------
(* Workbooks for the filters: brands, prices and weights *)

Chars(cs) == Str(cs)

H_ALL == H_STANDARD \cup {"pinpai", "zhongliang"}

H_NO_PRICE == H_ALL \ {"jiage"}

F_NINJA == Product(T("B101"), T("Blender"), Num(25), Num(100), Num(10),
                   Chars(<<"N", "i", "n", "j", "a", " ", "P", "r", "o">>), Num(500))

F_NO_BRAND_8 == Product(T("B102"), T("Cup"), Num(8), Num(100), Num(10), NaN, Num(999))

F_HEAVY == Product(T("B103"), T("Pan"), Num(9), Num(100), Num(10),
                   Chars(<<"A", "c", "m", "e">>), Num(1000))

F_UPPER_NA == Product(T("B104"), T("Mixer"), Chars_NA, Num(100), Num(10),
                      Chars(<<"K", "I", "T", "C", "H", "E", "N", "A", "I", "D">>),
                      Num(999))

F_INNER == Product(T("B105"), T("Box"), Num(25), Num(100), Num(10),
                   Chars(<<"B", "o", "x", "o">>), NaN)

F_PREFIX == Product(T("B106"), T("Pot"), Chars(<<"1", ",", "2", "0", "0">>),
                    Num(100), Num(10), Chars(<<"N", "i", "n">>), Num(999))

F_NO_WEIGHT == Product(T("B107"), T("Jar"), Num(9), Num(100), Num(10), NaN, NaN)

HEADERS_FILTER == {H_ALL, H_STANDARD, H_NO_PRICE}

PRODUCTS_FILTER == {F_NINJA, F_NO_BRAND_8, F_HEAVY, F_UPPER_NA, F_INNER,
                    F_PREFIX, F_NO_WEIGHT}

BOOKS_FILTER == Workbooks(HEADERS_FILTER, PRODUCTS_FILTER, MaxFilterRows)

NextFilter == ReadFile(BOOKS_FILTER, MaxFilterRows) \/ Pipeline

SpecFilter == Init /\ [][NextFilter]_vars

----------------------------------------------------------------------------
(* Workbooks for the score: one product with every combination of the     *)
(* fields the score reads, listed 1..MaxCopies times, alone or next to      *)
(* another product, in a single file                                        *)

SCORE_PRICES == {Num(8), Num(9), Num(14), Num(15), Num(19), Num(20), Num(25),
                 Num(40), Num(41)}

SCORE_SALES == {Num(500), Num(501), Num(600), Chars(<<"1", ",", "2", "0", "0">>)}

SCORE_GROWTH == {Num(50), Chars(<<"5", "1", "%">>), Chars_60pct, NaN}

HEADERS_SCORE == {H_STANDARD, H_STANDARD \ {"jiage"}, H_STANDARD \ {"yuexiaoliang"},
                  H_STANDARD \ {"jin30tian_xiaoliang_zengzhanglv"}}

ScoreWorkbooks ==
  {[columns |-> h,
    rows |-> [k \in 1..Len(ps) |-> [c \in h |-> ps[k][field_of(c)]]]] :
     h \in HEADERS_SCORE,
     ps \in {before \o [k \in 1..n |->
                          Product(T("B001"), T("Whisk"), price, sales, growth, NaN, NaN)]
                    \o after :
               price \in SCORE_PRICES, sales \in SCORE_SALES, growth \in SCORE_GROWTH,
               n \in 1..MaxCopies,
               before \in {<<>>, <<P_OTHER>>}, after \in {<<>>, <<P_OTHER>>}}}

InitScore == Init /\ Len(file_paths) = 1 /\ file_paths[1].readable

NextScore == ReadFile(ScoreWorkbooks, MaxCopies + 2) \/ Pipeline

SpecScore == InitScore /\ [][NextScore]_vars

----------------------------------------------------------------------------
(* Properties *)

Merged == full_df # NoFrame

Scored == "TPI_Score" \in unique_df.columns

\* the records of the merged set, before deduplication, that carry an identifier
Occurrences(asin) ==
  {k \in 1..Len(full_df.rows) : full_df.rows[k].val["ASIN"] = asin}

\* the sources an identifier appears in
SourcesOf(asin) ==
  {full_df.rows[k].val["Source_List"] : k \in Occurrences(asin)}

Identifiers ==
  {full_df.rows[k].val["ASIN"] : k \in 1..Len(full_df.rows)} \ {NaN}

OverlapBonus(n) == CASE n = 2 -> 30 [] n >= 3 -> 50 [] OTHER -> 0

\* a field of a record, 0 when the record set has no such field
Field(row, col) == IF col \in DOMAIN row THEN row[col].n ELSE 0

SalesBonus(row) == IF Field(row, "Monthly_Sales") > 500 THEN 10 ELSE 0

PriceBand(row) ==
  CASE Field(row, "Price") >= 20 /\ Field(row, "Price") <= 40 -> 10
    [] Field(row, "Price") < 15 -> -10
    [] OTHER -> 0

GrowthBonus(row) == IF Field(row, "Sales_Growth") > 50 THEN 10 ELSE 0

ScoredRows == {unique_df.rows[k].val : k \in 1..Len(unique_df.rows)}

\* C1: for every identifier that reaches scoring, the overlap count looked up
\* for its score is the number of records of the merged set (all sources,
\* before deduplication and filtering) that carry it, and its contribution to
\* the score is 30 for exactly 2, 50 for 3 or more, 0 for 1.
C1_OverlapCountsRecords ==
  Scored =>
    \A row \in ScoredRows :
      row["ASIN"] # NaN =>
        /\ counts_get(asin_counts, row["ASIN"], 1)
             = Cardinality(Occurrences(row["ASIN"]))
        /\ row["TPI_Score"].n - (50 + SalesBonus(row) + PriceBand(row) + GrowthBonus(row))
             = OverlapBonus(Cardinality(Occurrences(row["ASIN"])))

\* three records of two sources carry a scored identifier
C1_Witness ==
  /\ Scored
  /\ \E row \in ScoredRows :
       /\ row["ASIN"] # NaN
       /\ Cardinality(Occurrences(row["ASIN"])) = 3
       /\ Cardinality(SourcesOf(row["ASIN"])) = 2
       /\ row["TPI_Score"].n >= 50 + 50 - 10

\* C2: the TPI_Score of every surviving record is 50 + the overlap bonus + 10
\* for Monthly_Sales > 500 + 10 for 20 <= Price <= 40 or -10 for Price < 15 +
\* 10 for Sales_Growth > 50, computed from the record's own fields and its
\* overlap count alone, whatever other records stand before or after it.
C2_ScoreFormula ==
  Scored =>
    \A k \in 1..Len(unique_df.rows) :
      LET row == unique_df.rows[k].val
      IN row["TPI_Score"] =
           Num(50 + OverlapBonus(counts_get(asin_counts, row["ASIN"], 1))
                  + SalesBonus(row) + PriceBand(row) + GrowthBonus(row))

\* overlap 3, sales 600, price 25, growth 60 gives 130, next to another record
C2_Witness ==
  /\ Scored
  /\ Len(unique_df.rows) = 2
  /\ \E row \in ScoredRows :
       /\ Cardinality(Occurrences(row["ASIN"])) = 3
       /\ Field(row, "Monthly_Sales") = 600
       /\ Field(row, "Price") = 25
       /\ Field(row, "Sales_Growth") = 60
       /\ row["TPI_Score"] = Num(130)

\* the deduplicated records, and their state after the brand and price filters
Deduplicated == Range(drop_duplicates(full_df, "ASIN").rows)

BrandAllowed(r) ==
  \/ "Brand" \notin DOMAIN r.val
  \/ r.val["Brand"] = NaN
  \/ \A b \in 1..Len(BLOCK_BRANDS) : ~contains_nocase(r.val["Brand"].s, BLOCK_BRANDS[b])

PlaceOf(i) ==
  CHOOSE k \in 1..Len(unique_df.rows) : unique_df.rows[k].idx = top_30.rows[i].idx

ScoreAt(k) == unique_df.rows[k].val["TPI_Score"].n

\* C5: the output is the first min(30, n) of the n scored records under a
\* stable descending sort by TPI_Score: scores do not increase down the output,
\* no omitted record outranks an included one, and records with equal scores
\* keep their merge order.
C5_StableTopN ==
  top_30 # NoFrame =>
    LET n == Len(unique_df.rows)
        m == IF n < 30 THEN n ELSE 30
    IN /\ Len(top_30.rows) = m
       /\ \A i, j \in 1..m :
            i < j => \/ ScoreAt(PlaceOf(i)) > ScoreAt(PlaceOf(j))
                     \/ /\ ScoreAt(PlaceOf(i)) = ScoreAt(PlaceOf(j))
                        /\ PlaceOf(i) < PlaceOf(j)
       /\ \A k \in 1..n :
            k \notin {PlaceOf(i) : i \in 1..m} =>
              \A i \in 1..m : ScoreAt(PlaceOf(i)) >= ScoreAt(k)

Unreadable == {k \in 1..Len(file_paths) : ~file_paths[k].readable}

FirstUnreadable == CHOOSE k \in Unreadable : \A j \in Unreadable : k <= j

\* C6: a fatal error produces no output table. When a source cannot be read,
\* wherever it stands in the list, no source after it is read, nothing is
\* merged or scored and the run ends with None; when the merged set has no
\* ASIN field after the headers are normalized, the run ends with None before
\* deduplication, filtering and scoring.
C6_FatalErrorsAbort ==
  /\ Unreadable # {} =>
       /\ Len(all_data) < FirstUnreadable
       /\ pc \in {"read", "done"}
       /\ pc = "done" => final_result = None
       /\ pc = "read" => final_result = NoResult
       /\ full_df = NoFrame /\ asin_counts = <<>> /\ unique_df = NoFrame
       /\ top_30 = NoFrame
  /\ (Merged /\ "ASIN" \notin full_df.columns) =>
       /\ pc = "done"
       /\ final_result = None
       /\ asin_counts = <<>> /\ unique_df = NoFrame /\ top_30 = NoFrame

\* the second of two sources cannot be read after the first gave its rows
C6_Witness ==
  /\ pc = "done"
  /\ final_result = None
  /\ Len(file_paths) = 2
  /\ file_paths[1].readable /\ ~file_paths[2].readable
  /\ Len(all_data) = 1
  /\ all_data[1].rows # <<>>

AllReadable == Unreadable = {}

Survivors ==
  filter_weight(filter_price(filter_brand(drop_duplicates(full_df, "ASIN"))))

\* C7: when every source is read, the ASIN field is present and the filters
\* remove every record, the run ends normally with an empty table that has the
\* output columns.
C7_EmptyTableReturned ==
  (/\ pc = "done"
   /\ AllReadable
   /\ Merged
   /\ "ASIN" \in full_df.columns
   /\ full_df.rows # <<>>
   /\ Survivors.rows = <<>>) =>
     /\ final_result.kind = "DataFrame"
     /\ final_result.df.rows = <<>>
     /\ Range(output_cols) \subseteq final_result.df.columns

\* C8: for a non-empty input with the ASIN field (here with a surviving record)
\* the output has the required columns, also when none of the sources has one
\* of Title, Price, Monthly_Sales, Sales_Growth, Ratings, plus exactly those
\* of Revenue_Change, Price_Change, Image_URL, SKU that the record set has.
C8_OutputColumns ==
  (/\ pc = "done"
   /\ AllReadable
   /\ Merged
   /\ "ASIN" \in full_df.columns
   /\ top_30.rows # <<>>) =>
     /\ final_result.kind = "DataFrame"
     /\ final_result.df.columns =
          Range(output_cols) \cup (Range(optional_cols) \cap full_df.columns)

\* C9 as stated: the overlap used for an identifier's score is the number of
\* distinct sources it appears in.
C9_AsStated ==
  Scored =>
    \A row \in ScoredRows :
      row["ASIN"] # NaN =>
        /\ counts_get(asin_counts, row["ASIN"], 1) = Cardinality(SourcesOf(row["ASIN"]))
        /\ row["TPI_Score"].n - (50 + SalesBonus(row) + PriceBand(row) + GrowthBonus(row))
             = OverlapBonus(Cardinality(SourcesOf(row["ASIN"])))

\* C9, amended: the overlap is the number of records that carry the identifier.
\* An identifier listed k times in a single source and in no other has overlap
\* k and gets the bonus of k (30 for 2, 50 for 3 or more); the overlap is the
\* number of distinct sources when no source lists the identifier twice.
C9_OverlapWithinOneSource ==
  Scored =>
    \A row \in ScoredRows :
      row["ASIN"] # NaN =>
        LET listed == Cardinality(Occurrences(row["ASIN"]))
            sources == Cardinality(SourcesOf(row["ASIN"]))
            lookup == counts_get(asin_counts, row["ASIN"], 1)
            bonus == row["TPI_Score"].n - 50 - SalesBonus(row) - PriceBand(row)
                       - GrowthBonus(row)
        IN /\ sources = 1 => lookup = listed /\ bonus = OverlapBonus(listed)
           /\ listed = sources => lookup = sources

\* an identifier listed twice or more in one source and in no other is scored
C9_Witness ==
  /\ Scored
  /\ \E row \in ScoredRows :
       /\ row["ASIN"] # NaN
       /\ Cardinality(SourcesOf(row["ASIN"])) = 1
       /\ Cardinality(Occurrences(row["ASIN"])) >= 2
       /\ counts_get(asin_counts, row["ASIN"], 1) >= 2

\* C10: the weight filter drops a record exactly when the record set has a
\* Weight field and the record's Weight is 1000 or more; a record without a
\* Weight value stays.
C10_WeightFilter ==
  pc = "score" =>
    \A r \in Range(filter_price(filter_brand(drop_duplicates(full_df, "ASIN"))).rows) :
      r \notin Range(unique_df.rows) <=>
        /\ "Weight" \in full_df.columns
        /\ r.val["Weight"].t = "num"
        /\ r.val["Weight"].n >= 1000

====
